---- MODULE Spec2Model ----
(***************************************************************************)
(* galpynostatic: the galvanostatic diffusion kernel of                    *)
(* src/galpynostatic/lib/map.cpp (run_map, the OpenMP sweep of the         *)
(* (logell, logxi) grid) and src/galpynostatic/lib/profile.cpp             *)
(* (run_profile, one point with a sampled trajectory and a radial          *)
(* snapshot).                                                              *)
(*                                                                         *)
(* A C++ double is modelled as a decimal floating-point number with a      *)
(* Digits-digit mantissa, round-to-nearest, an unbounded exponent, and the *)
(* IEEE-754 special values NaN and +-infinity with their arithmetic and    *)
(* comparison rules (every comparison with NaN is false).  Zero carries no *)
(* sign: x / 0 has the sign of x.                                          *)
(***************************************************************************)
EXTENDS Integers, Sequences, FiniteSets, TLC

(***************************************************************************)
(* double                                                                  *)
(***************************************************************************)

\* Decimal digits kept in a mantissa (a double keeps 53 bits).
Digits == 4

P10 == <<1, 10, 100, 1000, 10000, 100000, 1000000, 10000000, 100000000, 1000000000>>

Pow10(n) == P10[n + 1]

Abs(n) == IF n < 0 THEN -n ELSE n

Sgn(n) == IF n < 0 THEN -1 ELSE IF n > 0 THEN 1 ELSE 0

NumDigits(a) ==
    IF a < 10000
    THEN (IF a < 100 THEN (IF a < 10 THEN 1 ELSE 2)
                     ELSE (IF a < 1000 THEN 3 ELSE 4))
    ELSE IF a < 100000000
         THEN (IF a < 1000000 THEN (IF a < 100000 THEN 5 ELSE 6)
                              ELSE (IF a < 10000000 THEN 7 ELSE 8))
         ELSE (IF a < 1000000000 THEN 9 ELSE 10)

NaN == [k |-> "nan", m |-> 0, e |-> 0]

Inf(s) == [k |-> "inf", m |-> s, e |-> 0]

Zero == [k |-> "num", m |-> 0, e |-> 0]

\* m * 10^e, m of d > Digits digits, rounded to the mantissa q.
Rounded(m, e, d, q) ==
    IF q = Pow10(Digits)
    THEN [k |-> "num", m |-> Sgn(m) * Pow10(Digits - 1), e |-> e + (d - Digits) + 1]
    ELSE [k |-> "num", m |-> Sgn(m) * q, e |-> e + (d - Digits)]

\* m * 10^e, m of d digits, as a Digits-digit mantissa (round half up).
Normal(m, e, d) ==
    IF d > Digits
    THEN Rounded(m, e, d,
                 (Abs(m) + 5 * Pow10(d - Digits - 1)) \div Pow10(d - Digits))
    ELSE [k |-> "num", m |-> m * Pow10(Digits - d), e |-> e - (Digits - d)]

\* The double nearest to m * 10^e.
Dec(m, e) == IF m = 0 THEN Zero ELSE Normal(m, e, NumDigits(Abs(m)))

IsNaN(x) == x.k = "nan"

IsInf(x) == x.k = "inf"

IsNum(x) == x.k = "num"

Neg(x) == IF IsNaN(x) THEN NaN ELSE [x EXCEPT !.m = -x.m]

FAbs(x) == IF IsNaN(x) THEN NaN ELSE [x EXCEPT !.m = Abs(x.m)]

\* hi + lo for nonzero finite operands, hi.e >= lo.e.
Aligned(hi, lo) ==
    IF hi.e - lo.e > Digits + 1 THEN hi
    ELSE Dec(hi.m * Pow10(hi.e - lo.e) + lo.m, lo.e)

Add(x, y) ==
    IF IsNaN(x) \/ IsNaN(y) THEN NaN
    ELSE IF IsInf(x) THEN (IF IsInf(y) /\ y.m # x.m THEN NaN ELSE x)
    ELSE IF IsInf(y) THEN y
    ELSE IF x.m = 0 THEN y
    ELSE IF y.m = 0 THEN x
    ELSE IF x.e >= y.e THEN Aligned(x, y) ELSE Aligned(y, x)

Sub(x, y) == Add(x, Neg(y))

Mul(x, y) ==
    IF IsNaN(x) \/ IsNaN(y) THEN NaN
    ELSE IF IsInf(x) \/ IsInf(y)
         THEN (IF x.m = 0 \/ y.m = 0 THEN NaN ELSE Inf(Sgn(x.m) * Sgn(y.m)))
    ELSE Dec(x.m * y.m, x.e + y.e)

Div(x, y) ==
    IF IsNaN(x) \/ IsNaN(y) THEN NaN
    ELSE IF IsInf(x)
         THEN (IF IsInf(y) THEN NaN
               ELSE Inf(x.m * (IF y.m < 0 THEN -1 ELSE 1)))
    ELSE IF IsInf(y) THEN Zero
    ELSE IF y.m = 0 THEN (IF x.m = 0 THEN NaN ELSE Inf(Sgn(x.m)))
    ELSE IF x.m = 0 THEN Zero
    ELSE Dec(Sgn(x.m) * Sgn(y.m) * ((Abs(x.m) * Pow10(Digits + 1)) \div Abs(y.m)),
             x.e - y.e - (Digits + 1))

IsPositive(x) == ~IsNaN(x) /\ x.m > 0

\* x > y, x >= y, x < y, x == y on doubles: all false when either is NaN.
Gt(x, y) == IsPositive(Sub(x, y))

Eq(x, y) == ~IsNaN(x) /\ ~IsNaN(y) /\ x = y

Ge(x, y) == Gt(x, y) \/ Eq(x, y)

Lt(x, y) == Gt(y, x)

Le(x, y) == Ge(y, x)

RECURSIVE ISqrtIn(_, _, _)
\* The largest r in lo..hi with r * r <= n.
ISqrtIn(n, lo, hi) ==
    IF lo >= hi THEN lo
    ELSE IF ((lo + hi + 1) \div 2) * ((lo + hi + 1) \div 2) <= n
         THEN ISqrtIn(n, (lo + hi + 1) \div 2, hi)
         ELSE ISqrtIn(n, lo, ((lo + hi + 1) \div 2) - 1)

\* The square root of m * 10^e, m > 0, e - sh even.
SqrtShifted(m, e, sh) == Dec(ISqrtIn(m * Pow10(sh), 0, 46340), (e - sh) \div 2)

\* sqrt of <cmath>
Sqrt(x) ==
    IF IsNaN(x) THEN NaN
    ELSE IF IsInf(x) THEN (IF x.m > 0 THEN x ELSE NaN)
    ELSE IF x.m < 0 THEN NaN
    ELSE IF x.m = 0 THEN Zero
    ELSE SqrtShifted(x.m, x.e, IF (x.e % 2) = 0 THEN Digits ELSE Digits + 1)

\* ln(10) and the fixed-point unit of the logarithm's series.
LogUnit == 100000

Ln10 == 230259

RECURSIVE AtanhSeries(_, _, _, _)
\* z + z^3/3 + z^5/5 + ... in units of 1/LogUnit, from the term zk = z^n.
AtanhSeries(zk, z2, n, last) ==
    IF n > last \/ zk = 0 THEN 0
    ELSE zk \div n + AtanhSeries((zk * z2) \div LogUnit, z2, n + 2, last)

\* 2 atanh(z) + n ln(10), z in units of 1/LogUnit.
LogSeries(z, n) ==
    Dec(2 * Sgn(z) * AtanhSeries(Abs(z),
                                 ((Abs(z) \div 10) * Abs(z)) \div (LogUnit \div 10),
                                 1, 15)
            + n * Ln10, -5)

\* ln((m / den) * 10^n)
LogScaled(m, den, n) ==
    LogSeries(Sgn(m - den) * ((Abs(m - den) * LogUnit) \div (m + den)), n)

\* log of <cmath>: the natural logarithm, m * 10^e = f * 10^n with f in
\* [0.3162, 3.162), ln f = 2 atanh((f - 1) / (f + 1)).
Log(x) ==
    IF IsNaN(x) THEN NaN
    ELSE IF IsInf(x) THEN (IF x.m > 0 THEN x ELSE NaN)
    ELSE IF x.m < 0 THEN NaN
    ELSE IF x.m = 0 THEN Inf(-1)
    ELSE IF x.m >= 3162 THEN LogScaled(x.m, Pow10(Digits), x.e + Digits)
    ELSE LogScaled(x.m, Pow10(Digits - 1), x.e + Digits - 1)

One == Dec(1, 0)

\* v with the sign of x.
WithSignOf(v, x) == IF x.m < 0 THEN Neg(v) ELSE v

\* ln(a + sqrt(a^2 + 1))
AsinhOfAbs(a) == Log(Add(a, Sqrt(Add(Mul(a, a), One))))

\* asinh of <cmath>: sign(x) * ln(|x| + sqrt(x^2 + 1)).
Asinh(x) ==
    IF IsNaN(x) THEN NaN
    ELSE IF IsInf(x) THEN x
    ELSE IF x.m = 0 THEN Zero
    ELSE WithSignOf(AsinhOfAbs(FAbs(x)), x)

\* pow(10, x) of <cmath> for the integral exponents of the model's grids.
PowTen(n) == Dec(1, n)


Two == Dec(2, 0)

Four == Dec(4, 0)

Half == Dec(5, -1)

Epsilon == Dec(1, -4)

(***************************************************************************)
(* The kernel shared by run_map and run_profile.  An argument record a     *)
(* holds the call's scalar and array arguments under their source names;   *)
(* C arrays are functions on 0..n-1.  logell and logxi values are integers *)
(* (the decimal exponents handed to pow(10, .)).                           *)
(***************************************************************************)

faraday == Dec(964845561, -4)

gas_constant == Dec(8314472, -6)

t_hour == Dec(3600, 0)

rfaraday(a) == Div(Mul(gas_constant, a.temperature), faraday)

c_rate(a, logxi) ==
    Div(Mul(t_hour, Sub(a.geometry_param, One)),
        Mul(PowTen(logxi), PowTen(logxi)))

\* run_map: 2.0 * sqrt((pow(10, logell) * geometry_param * t_hour) / c_rate)
map_particle_size(a, logell, crate) ==
    Mul(Two, Sqrt(Div(Mul(Mul(PowTen(logell), a.geometry_param), t_hour), crate)))

\* run_profile: 2.0 * sqrt((pow(10, logell) * 2.0 * t_hour) / c_rate)
profile_particle_size(a, logell, crate) ==
    Mul(Two, Sqrt(Div(Mul(Mul(PowTen(logell), Two), t_hour), crate)))

surface_area(a, psize) ==
    Div(Mul(Mul(Two, a.geometry_param), a.mass), Mul(a.density, psize))

current_density(a, crate, area) ==
    Div(Mul(Mul(Neg(crate), a.specific_capacity), a.mass),
        Mul(Dec(1000, 0), area))

maximum_capacity(a) ==
    Div(Mul(Mul(a.specific_capacity, a.density), Dec(36, -1)), faraday)

time_step(a, ccd, area) ==
    Div(Div(Mul(Mul(Neg(a.specific_capacity), a.mass), Dec(36, -1)),
            Mul(ccd, area)),
        Dec(a.time_steps - 1, 0))

space_step(a, psize) == Div(Mul(Half, psize), Dec(a.grid_size - 1, 0))

Cells(n) == 0 .. (n - 1)

RECURSIVE ArrayTo(_, _)
\* The C array f[0], ..., f[i], every element computed.
ArrayTo(f, i) == IF i = 0 THEN (0 :> f[0]) ELSE ArrayTo(f, i - 1) @@ (i :> f[i])

Array(f, n) == ArrayTo(f, n - 1)

\* The seeded field: 1e-4 everywhere (analytic model), or the first
\* breakpoint, 1e-4 when that is exactly 0 (tabulated model).
SeedField(a) ==
    Array([i \in Cells(a.grid_size) |->
              IF a.model THEN Epsilon
              ELSE IF Eq(a.soc_eq[0], Zero) THEN Epsilon ELSE a.soc_eq[0]],
          a.grid_size)

\* The locals that follow from c_rate and particle_size alone.
Sizes(a, crate, psize) ==
    [c_rate |-> crate, particle_size |-> psize,
     surface_area |-> surface_area(a, psize),
     maximum_capacity |-> maximum_capacity(a),
     space_step |-> space_step(a, psize)]

\* ... and ccd
WithCurrent(a, l) ==
    l @@ [ccd |-> current_density(a, l.c_rate, l.surface_area)]

\* ... and time_step, position[i] = i * space_step
WithSteps(a, l) ==
    l @@ [time_step |-> time_step(a, l.ccd, l.surface_area),
          position |-> Array([i \in Cells(a.grid_size) |->
                                 Mul(Dec(i, 0), l.space_step)], a.grid_size)]

\* ... and alpha, beta
WithRatios(a, l) ==
    l @@ [alpha |-> Div(l.time_step, Mul(Mul(Two, l.space_step), l.space_step)),
          beta |-> Div(Mul(Sub(a.geometry_param, One), l.time_step),
                       Mul(Four, l.space_step))]

\* ... and alpha_0, gamma0
WithDiagonal(a, l) ==
    l @@ [alpha_0 |-> Add(One, Mul(Two, l.alpha)),
          gamma0 |-> Sub(One, Mul(Two, l.alpha))]

\* ... and the Thomas coefficients coefs, add, sub, the zeroed work arrays,
\* the seeded field, and pot_i = vcut + 1.
WithArrays(a, l) ==
    LET n == a.grid_size
        coefs[i \in Cells(n)] ==
            IF i = 0 THEN Zero
            ELSE IF i = 1 THEN Div(Mul(Two, l.alpha), l.alpha_0)
            ELSE Div(Add(l.alpha, Div(l.beta, l.position[i - 1])),
                     Sub(l.alpha_0,
                         Mul(Sub(l.alpha, Div(l.beta, l.position[i - 1])),
                             coefs[i - 1])))
    IN  l @@ [coefs |-> Array(coefs, n),
              add |-> Array([i \in Cells(n) |->
                                Add(l.alpha, Div(l.beta, l.position[i]))], n),
              sub |-> Array([i \in Cells(n) |->
                                Sub(l.alpha, Div(l.beta, l.position[i]))], n),
              intercepts |-> Array([i \in Cells(n) |-> Zero], n),
              gamma |-> Array([i \in Cells(n) |-> Zero], n),
              previous_soc |-> Array([i \in Cells(n) |-> Zero], n),
              actual_soc |-> SeedField(a),
              pot_i |-> Add(a.vcut, One)]

\* The locals of one simulation after the code before the while loop.
Locals(a, crate, psize) ==
    WithArrays(a, WithDiagonal(a, WithRatios(a, WithSteps(a,
        WithCurrent(a, Sizes(a, crate, psize))))))

RECURSIVE SegmentFrom(_, _, _, _, _)
\* The scan "for (i = 0; i < isotherm_len; i++)" from index i on, cur being
\* the segment whose coefficients ai, bi, ci, di, socd hold so far (-1: the
\* initial zeros).
SegmentFrom(soc, soc_eq, isotherm_len, i, cur) ==
    IF i >= isotherm_len THEN cur
    ELSE IF Ge(soc, soc_eq[i]) /\ Lt(soc, soc_eq[i + 1]) THEN i
    ELSE SegmentFrom(soc, soc_eq, isotherm_len, i + 1, isotherm_len - 1)

RECURSIVE SegmentStrictFrom(_, _, _, _, _)
\* The scan with "soc > soc_eq[i]" in place of "soc >= soc_eq[i]".
SegmentStrictFrom(soc, soc_eq, isotherm_len, i, cur) ==
    IF i >= isotherm_len THEN cur
    ELSE IF Gt(soc, soc_eq[i]) /\ Lt(soc, soc_eq[i + 1]) THEN i
    ELSE SegmentStrictFrom(soc, soc_eq, isotherm_len, i + 1, isotherm_len - 1)

SegmentStrict(soc, soc_eq, isotherm_len) ==
    SegmentStrictFrom(soc, soc_eq, isotherm_len, 0, -1)

\* The segment whose coefficients and origin the spline evaluation uses.
Segment(soc, soc_eq, isotherm_len) ==
    SegmentFrom(soc, soc_eq, isotherm_len, 0, -1)

\* di + ci * dsocs + bi * dsocs * dsocs + ai * dsocs * dsocs * dsocs
Cubic(ai, bi, ci, di, dsocs) ==
    Add(Add(Add(di, Mul(ci, dsocs)), Mul(Mul(bi, dsocs), dsocs)),
        Mul(Mul(Mul(ai, dsocs), dsocs), dsocs))

\* The spline evaluated with the coefficients of segment i.
SplineOn(a, soc, i) ==
    IF i < 0 THEN Cubic(Zero, Zero, Zero, Zero, Sub(soc, Zero))
    ELSE Cubic(a.spl_ai[i], a.spl_bi[i], a.spl_ci[i], a.spl_di[i],
               Sub(soc, a.soc_eq[i]))

SplinePotential(a, soc) == SplineOn(a, soc, Segment(soc, a.soc_eq, a.isotherm_len))

FrumkinPotential(a, soc) ==
    Mul(rfaraday(a),
        Add(Mul(a.g_pot, Sub(Half, soc)), Log(Div(Sub(One, soc), soc))))

\* i0 = faraday * maximum_capacity * sqrt(soc * (1 - soc))
ExchangeCurrent(l, soc) ==
    Mul(Mul(faraday, l.maximum_capacity), Sqrt(Mul(soc, Sub(One, soc))))

\* pot_i from the surface value soc.
SurfaceVoltage(a, l, soc) ==
    Add(IF a.model THEN FrumkinPotential(a, soc) ELSE SplinePotential(a, soc),
        Mul(Mul(Two, rfaraday(a)),
            Asinh(Div(l.ccd, Mul(Two, ExchangeCurrent(l, soc))))))

\* pot_i of one loop iteration, from the field as the iteration finds it.
Voltage(a, l, field) == SurfaceVoltage(a, l, field[a.grid_size - 1])

\* previous_soc[i] = actual_soc[i]
CopyField(l) == [l EXCEPT !.previous_soc = l.actual_soc]

\* The right-hand side gamma of the Crank-Nicolson system.
RightHandSide(a, l) ==
    LET n == a.grid_size
    IN  [l EXCEPT !.gamma = Array([i \in Cells(n) |->
            IF i = n - 1
            THEN Sub(Add(Mul(l.gamma0, l.previous_soc[n - 1]),
                         Mul(Mul(Two, l.alpha), l.previous_soc[n - 2])),
                     Mul(Mul(Mul(l.add[n - 1], Four), l.space_step),
                         Div(l.ccd, Mul(faraday, l.maximum_capacity))))
            ELSE IF i = 0
            THEN Add(Mul(l.gamma0, l.previous_soc[0]),
                     Mul(Mul(Two, l.alpha), l.previous_soc[1]))
            ELSE Add(Add(Mul(l.gamma0, l.previous_soc[i]),
                         Mul(l.add[i], l.previous_soc[i + 1])),
                     Mul(l.sub[i], l.previous_soc[i - 1]))], n)]

\* The forward sweep of the Thomas elimination: intercepts.
ForwardSweep(a, l) ==
    LET n == a.grid_size
        icpt[i \in Cells(n)] ==
            IF i = 0 THEN l.intercepts[0]
            ELSE IF i = 1 THEN Div(l.gamma[0], l.alpha_0)
            ELSE Div(Add(l.gamma[i - 1], Mul(l.sub[i - 1], icpt[i - 1])),
                     Sub(l.alpha_0, Mul(l.sub[i - 1], l.coefs[i - 1])))
    IN  [l EXCEPT !.intercepts = Array(icpt, n)]

\* The back-substitution: actual_soc from the surface inwards.
BackSubstitution(a, l) ==
    LET n == a.grid_size
        soc[i \in Cells(n)] ==
            IF i = n - 1
            THEN Div(Add(l.gamma[n - 1], Mul(Mul(Two, l.alpha), l.intercepts[n - 1])),
                     Sub(l.alpha_0, Mul(Mul(Two, l.alpha), l.coefs[n - 1])))
            ELSE Add(Mul(l.coefs[i + 1], soc[i + 1]), l.intercepts[i + 1])
    IN  [l EXCEPT !.actual_soc = Array(soc, n)]

\* One Crank-Nicolson update by Thomas elimination.
Diffuse(a, l) == BackSubstitution(a, ForwardSweep(a, RightHandSide(a, CopyField(l))))

RECURSIVE SumTo(_, _)
\* field[0] + ... + field[i], accumulated from 0.0 in index order.
SumTo(field, i) ==
    IF i < 0 THEN Zero ELSE Add(SumTo(field, i - 1), field[i])

\* The mean of a field: its sum over grid_size.
Mean(a, field) == Div(SumTo(field, a.grid_size - 1), Dec(a.grid_size, 0))

\* The loop test "pot_i > vcut".
Continues(a, l) == Gt(l.pot_i, a.vcut)

\* The locals n after an iteration from l, previous_soc left as it was in l
\* when the iteration's pot_i ends the loop.
KeepPrevious(a, l, n) ==
    IF Continues(a, n) THEN n ELSE [n EXCEPT !.previous_soc = l.previous_soc]

\* An iteration that copies the field to previous_soc only if the loop goes on.
LoopBodyLag(a, l) ==
    KeepPrevious(a, l, Diffuse(a, [l EXCEPT !.pot_i = Voltage(a, l, l.actual_soc)]))

\* One iteration of the while loop of run_map: pot_i from the field, then
\* the diffusion update.
LoopBody(a, l) == Diffuse(a, [l EXCEPT !.pot_i = Voltage(a, l, l.actual_soc)])

\* The field whose mean run_map publishes as socmax.
ReportedFieldActual(l) == l.actual_soc

ReportedField(l) == l.previous_soc

\* index = logell * num_logxi + logxi
FlatIndexSum(logell, logxi, num_logxi) == logell + logxi

FlatIndex(logell, logxi, num_logxi) == logell * num_logxi + logxi

\* The locals of a run_map cell before its while loop.
MapLocals(a, logell, logxi) ==
    LET crate == c_rate(a, a.logxi_grid[logxi])
    IN  Locals(a, crate, map_particle_size(a, a.logell_grid[logell], crate))

RECURSIVE RunLoop(_, _)
\* The while loop run to its exit.
RunLoop(a, l) == IF Continues(a, l) THEN RunLoop(a, LoopBody(a, l)) ELSE l

\* What one cell writes: the three values stored at its flattened index.
CellOutput(a, logell, logxi, l) ==
    [logell |-> a.logell_grid[logell], logxi |-> a.logxi_grid[logxi],
     socmax |-> Mean(a, ReportedField(l))]

Unset == [logell |-> 0, logxi |-> 0, socmax |-> [k |-> "unset", m |-> 0, e |-> 0]]

\* run_map executed by a single thread, the cells in program order: the
\* output arrays, as one record per flattened index.
SequentialRun(a) ==
    [idx \in Cells(a.num_logell * a.num_logxi) |->
        LET logell == idx \div a.num_logxi
            logxi  == idx % a.num_logxi
        IN  CellOutput(a, logell, logxi, RunLoop(a, MapLocals(a, logell, logxi)))]

(***************************************************************************)
(* Bounds and inputs of the model                                          *)
(***************************************************************************)

\* The most processors omp_get_num_procs reports.
MaxThreads == 2

\* Iterations of one while loop the model follows.
MaxSteps == 12

\* Segments of the largest isotherm table of the lookup specification.
MaxSegments == 3

Arr(s) == Array([i \in Cells(Len(s)) |-> s[i + 1]], Len(s))

\* A two-segment continuous isotherm on breakpoints 0, 0.5, 1.
BaseArgs ==
    [model |-> TRUE, g_pot |-> Zero, nthreads |-> 1, grid_size |-> 3,
     time_steps |-> 5, isotherm_len |-> 2, num_logell |-> 1, num_logxi |-> 1,
     temperature |-> Dec(298, 0), mass |-> One, density |-> One,
     vcut |-> Dec(-15, -2), specific_capacity |-> One, geometry_param |-> Two,
     logell_grid |-> Arr(<<0>>), logxi_grid |-> Arr(<<0>>),
     spl_ai |-> Arr(<<Zero, Zero>>), spl_bi |-> Arr(<<Zero, Zero>>),
     spl_ci |-> Arr(<<Dec(-2, -1), Dec(-4, -1)>>),
     spl_di |-> Arr(<<Dec(1, -1), Zero>>),
     soc_eq |-> Arr(<<Zero, Half, One>>),
     logell |-> 0, logxi |-> 0, each |-> 1, profile_soc |-> Half]

\* Sweeps: every shape of grid up to 2 x 2 on logell, logxi in {0, 1}, one or
\* two threads requested or all processors (-1), cutoff -0.05 V.
SweepArgs ==
    { [BaseArgs EXCEPT !.nthreads = nt, !.num_logell = nl, !.num_logxi = nx,
                       !.vcut = Dec(-5, -2),
                       !.logell_grid = Arr(<<0, 1>>), !.logxi_grid = Arr(<<0, 1>>)] :
        nt \in {-1, 1, 2}, nl \in 1 .. 2, nx \in 1 .. 2 }

Points == {<<0, 0>>, <<1, 0>>, <<-1, 1>>}

\* Single cells on one thread: both potential models, the three geometries,
\* two cutoffs, three (logell, logxi) points.
CellArgs ==
    { [BaseArgs EXCEPT !.model = md, !.geometry_param = Dec(g, 0), !.vcut = vc,
                       !.logell_grid = Arr(<<pt[1]>>), !.logxi_grid = Arr(<<pt[2]>>)] :
        md \in BOOLEAN, g \in 0 .. 2, vc \in {Dec(-15, -2), Dec(-5, -1)},
        pt \in Points }

(***************************************************************************)
(* run_map                                                                 *)
(***************************************************************************)

VARIABLES
    args,       \* the arguments of the call
    team,       \* threads of the parallel region
    todo,       \* cells (logell, logxi) of the collapsed loop not yet handed out
    wpc,        \* per thread: "idle" (between cells) or "loop" (in a cell)
    cell,       \* per thread: the loop variables logell, logxi
    index,      \* per thread: the private variable index
    scratch,    \* per buffer: the locals of the cell being run
    trace,      \* per buffer: field and pot_i of each iteration of the cell
    res,        \* res_logell, res_logxi, res_socmax, one record per index
    nwrites,    \* per index: stores made to the three output slots
    log,        \* per index: the trace and final locals of the cell written
    ref,        \* the output arrays of the same call run by one thread
    returned,   \* run_map has returned
    prof,       \* run_profile: its locals, counters and output arrays
    lookup      \* one spline segment lookup: table, soc and chosen segment

mapvars == <<team, todo, wpc, cell, index, scratch, trace, res, nwrites, log,
             ref, returned>>

vars == <<args, mapvars, prof, lookup>>

Threads == 1 .. team

\* The buffer holding a thread's cell locals: declared in the loop body, so
\* each thread has its own.
BufShared(w) == 1

Buf(w) == w

NoLocals == [pot_i |-> NaN]

NoProfile == [pc |-> "none"]

NoLookup == [pc |-> "none"]

Init ==
    /\ args \in SweepArgs \cup CellArgs
    /\ team \in IF args.nthreads = -1 THEN 1 .. MaxThreads ELSE {args.nthreads}
    /\ todo = Cells(args.num_logell) \X Cells(args.num_logxi)
    /\ wpc = [w \in Threads |-> "idle"]
    /\ cell = [w \in Threads |-> <<0, 0>>]
    /\ index = [w \in Threads |-> 0]
    /\ scratch = [w \in Threads |-> NoLocals]
    /\ trace = [w \in Threads |-> <<>>]
    /\ res = [idx \in Cells(args.num_logell * args.num_logxi) |-> Unset]
    /\ nwrites = [idx \in Cells(args.num_logell * args.num_logxi) |-> 0]
    /\ log = [idx \in Cells(args.num_logell * args.num_logxi) |-> <<>>]
    /\ ref = SequentialRun(args)
    /\ returned = FALSE
    /\ prof = NoProfile
    /\ lookup = NoLookup

\* A thread is handed an iteration of the collapsed loop and runs the cell's
\* code up to the while loop.
TakeCell(w) ==
    /\ wpc[w] = "idle"
    /\ \E c \in todo :
        /\ todo' = todo \ {c}
        /\ cell' = [cell EXCEPT ![w] = c]
        /\ index' = [index EXCEPT ![w] = FlatIndex(c[1], c[2], args.num_logxi)]
        /\ scratch' = [scratch EXCEPT ![Buf(w)] = MapLocals(args, c[1], c[2])]
        /\ trace' = [trace EXCEPT ![Buf(w)] = <<>>]
    /\ wpc' = [wpc EXCEPT ![w] = "loop"]
    /\ UNCHANGED <<args, team, res, nwrites, log, ref, returned, prof, lookup>>

\* One iteration of the cell's while loop.
Iterate(w) ==
    /\ wpc[w] = "loop"
    /\ Continues(args, scratch[Buf(w)])
    /\ Len(trace[Buf(w)]) < MaxSteps
    /\ scratch' = [scratch EXCEPT ![Buf(w)] = LoopBody(args, @)]
    /\ trace' = [trace EXCEPT ![Buf(w)] =
                    Append(@, [field |-> scratch[Buf(w)].actual_soc,
                               pot |-> scratch'[Buf(w)].pot_i])]
    /\ UNCHANGED <<args, team, todo, wpc, cell, index, res, nwrites, log, ref,
                   returned, prof, lookup>>

\* The loop has exited: socmax is computed and the three slots are stored.
Publish(w) ==
    /\ wpc[w] = "loop"
    /\ ~Continues(args, scratch[Buf(w)])
    /\ LET l == scratch[Buf(w)]
       IN  /\ res' = [res EXCEPT ![index[w]] =
                         CellOutput(args, cell[w][1], cell[w][2], l)]
           /\ log' = [log EXCEPT ![index[w]] =
                         [trace |-> trace[Buf(w)], l |-> l]]
    /\ nwrites' = [nwrites EXCEPT ![index[w]] = @ + 1]
    /\ wpc' = [wpc EXCEPT ![w] = "idle"]
    /\ UNCHANGED <<args, team, todo, cell, index, scratch, trace, ref, returned,
                   prof, lookup>>

\* The barrier that ends the parallel region: run_map returns.
Return ==
    /\ ~returned
    /\ todo = {}
    /\ \A w \in Threads : wpc[w] = "idle"
    /\ returned' = TRUE
    /\ UNCHANGED <<args, team, todo, wpc, cell, index, scratch, trace, res,
                   nwrites, log, ref, prof, lookup>>

Next ==
    \/ \E w \in Threads : TakeCell(w)
    \/ \E w \in Threads : Iterate(w)
    \/ \E w \in Threads : Publish(w)
    \/ Return

Spec == Init /\ [][Next]_vars

\* The model's iteration cap never cuts a loop short.
CapNotReached ==
    /\ \A w \in Threads : Len(trace[Buf(w)]) < MaxSteps
    /\ prof.pc = "loop" => prof.steps < MaxSteps

(***************************************************************************)
(* run_profile                                                             *)
(***************************************************************************)

\* One point on five time steps: both models, the three geometries, every
\* sample count 1..time_steps, a target SOC met at the seed (1e-4) or never.
CoarseProfileArgs ==
    { [BaseArgs EXCEPT !.model = md, !.geometry_param = Dec(g, 0), !.each = ea,
                       !.profile_soc = ps, !.logell = pt[1], !.logxi = pt[2],
                       !.logell_grid = Arr(<<pt[1]>>), !.logxi_grid = Arr(<<pt[2]>>)] :
        md \in BOOLEAN, g \in 0 .. 2, ea \in 1 .. BaseArgs.time_steps,
        ps \in {Epsilon, Half}, pt \in {<<0, 0>>, <<-1, 1>>} }

\* One point on 10001 time steps, cut off at 17.65 mV: the mean SOC rises by
\* less than 1e-4 a step and stays in the band around 2.5e-4 for two steps.
FineProfileArgs ==
    { [BaseArgs EXCEPT !.time_steps = 10001, !.vcut = Dec(1765, -5), !.each = ea,
                       !.profile_soc = ps] :
        ea \in {1, 3}, ps \in {Dec(25, -5), Half} }

ProfileArgs == CoarseProfileArgs \cup FineProfileArgs

\* The locals of run_profile before its while loop.
ProfileLocals(a) ==
    LET crate == c_rate(a, a.logxi)
    IN  Locals(a, crate, profile_particle_size(a, a.logell, crate))

\* (soc > profile_soc - 1.0e-4) && (soc < profile_soc + 1.0e-4)
InBand(a, soc) ==
    Gt(soc, Sub(a.profile_soc, Epsilon)) /\ Lt(soc, Add(a.profile_soc, Epsilon))

\* The guard "profile_index == 0" of the snapshot.
CapturesAlways(profile_index) == TRUE

Captures(profile_index) == profile_index = 0

\* steps % (time_steps / each) == 0
Sampled(a, steps) == steps % (a.time_steps \div a.each) = 0

\* res_r_norm[i] = position[i] / (0.5 * particle_size)
RadialPositions(a, l) ==
    Array([i \in Cells(a.grid_size) |->
              Div(l.position[i], Mul(Half, l.particle_size))], a.grid_size)

UnsetValue == [k |-> "unset", m |-> 0, e |-> 0]

\* A store res_soc[i] = soc, res_pot[i] = pot into arrays of `each` entries;
\* a store outside them changes neither array.
StoreSample(p, a, i, soc, pot) ==
    [p EXCEPT !.stores = Append(@, i),
              !.res_soc = IF i \in Cells(a.each) THEN [@ EXCEPT ![i] = soc] ELSE @,
              !.res_pot = IF i \in Cells(a.each) THEN [@ EXCEPT ![i] = pot] ELSE @]

ProfileInit ==
    /\ args \in ProfileArgs
    /\ prof = [pc |-> "loop", l |-> ProfileLocals(args), steps |-> 0,
               res_index |-> 0, profile_index |-> 0, soc |-> UnsetValue,
               res_soc |-> [i \in Cells(args.each) |-> UnsetValue],
               res_pot |-> [i \in Cells(args.each) |-> UnsetValue],
               res_r_norm |-> [i \in Cells(args.grid_size) |-> UnsetValue],
               res_cons |-> [i \in Cells(args.grid_size) |-> UnsetValue],
               stores |-> <<>>, snaps |-> 0, hits |-> <<>>]
    /\ team = 1
    /\ todo = {}
    /\ wpc = [w \in {1} |-> "idle"]
    /\ cell = [w \in {1} |-> <<0, 0>>]
    /\ index = [w \in {1} |-> 0]
    /\ scratch = [w \in {1} |-> NoLocals]
    /\ trace = [w \in {1} |-> <<>>]
    /\ res = <<>>
    /\ nwrites = <<>>
    /\ log = <<>>
    /\ ref = <<>>
    /\ returned = FALSE
    /\ lookup = NoLookup

\* pot_i and the mean soc of the field as the iteration finds it.
Measure(a, p) ==
    [p EXCEPT !.l.pot_i = Voltage(a, p.l, p.l.actual_soc),
              !.soc = Mean(a, p.l.actual_soc)]

\* The cadence sample: the first one only advances res_index, the later
\* ones store soc and pot_i at res_index and advance it.
Sample(a, p) ==
    IF Sampled(a, p.steps)
    THEN [(IF p.res_index = 0 THEN p
           ELSE StoreSample(p, a, p.res_index, p.soc, p.l.pot_i))
             EXCEPT !.res_index = @ + 1]
    ELSE p

\* The radial snapshot, taken from the field before its update.
Snapshot(a, p) ==
    IF InBand(a, p.soc)
    THEN [(IF Captures(p.profile_index)
           THEN [p EXCEPT !.res_r_norm = RadialPositions(a, p.l),
                          !.res_cons = p.l.actual_soc,
                          !.profile_index = @ + 1,
                          !.snaps = @ + 1]
           ELSE p)
             EXCEPT !.hits = Append(@, p.l.actual_soc)]
    ELSE p

\* The diffusion update and steps++.
Advance(a, p) == [p EXCEPT !.l = Diffuse(a, p.l), !.steps = @ + 1]

\* The state of run_profile after one iteration of its while loop that
\* stores inside the arrays or not at all.
ProfileBody(a, p) == Advance(a, Snapshot(a, Sample(a, Measure(a, p))))

\* The iteration stores a cadence sample at an index outside the arrays.
StoresOutside(a, p) ==
    Sampled(a, p.steps) /\ p.res_index # 0 /\ p.res_index \notin Cells(a.each)

\* One iteration of the while loop of run_profile.
ProfileIterate ==
    /\ prof.pc = "loop"
    /\ Continues(args, prof.l)
    /\ prof.steps < MaxSteps
    /\ prof' = ProfileBody(args, prof)
    /\ UNCHANGED <<args, mapvars, lookup>>

\* An iteration whose cadence store falls outside res_soc and res_pot, the
\* store ending the process.
ProfileIterateFault ==
    /\ prof.pc = "loop"
    /\ Continues(args, prof.l)
    /\ prof.steps < MaxSteps
    /\ StoresOutside(args, prof)
    /\ prof' = [prof EXCEPT !.pc = "crashed", !.stores = Append(@, prof.res_index)]
    /\ UNCHANGED <<args, mapvars, lookup>>

\* The loop has exited: res_soc[res_index + 1] = soc, res_pot[res_index + 1]
\* = pot_i, and run_profile returns.
ProfileFinish ==
    /\ prof.pc = "loop"
    /\ ~Continues(args, prof.l)
    /\ prof' = [StoreSample(prof, args, prof.res_index + 1, prof.soc, prof.l.pot_i)
                   EXCEPT !.pc = "done"]
    /\ UNCHANGED <<args, mapvars, lookup>>

\* The final store falls outside the arrays and ends the process.
ProfileFinishFault ==
    /\ prof.pc = "loop"
    /\ ~Continues(args, prof.l)
    /\ (prof.res_index + 1) \notin Cells(args.each)
    /\ prof' = [prof EXCEPT !.pc = "crashed",
                            !.stores = Append(@, prof.res_index + 1)]
    /\ UNCHANGED <<args, mapvars, lookup>>

ProfileNext ==
    \/ ProfileIterate
    \/ ProfileIterateFault
    \/ ProfileFinish
    \/ ProfileFinishFault

ProfileSpec == ProfileInit /\ [][ProfileNext]_vars

(***************************************************************************)
(* The spline segment lookup on its own                                    *)
(***************************************************************************)

\* Breakpoints and surface SOC values, in hundredths.
BreakValues == {0, 25, 50, 75, 100}

SocValues ==
    {Dec(v, -2) : v \in {-10, 0, 10, 25, 30, 50, 75, 99, 100, 120}}
        \cup {Epsilon, NaN}

Min(S) == CHOOSE v \in S : \A u \in S : v <= u

RECURSIVE Ascending(_)
\* The values of S in increasing order.
Ascending(S) == IF S = {} THEN <<>> ELSE <<Min(S)>> \o Ascending(S \ {Min(S)})

\* Every strictly increasing breakpoint array soc_eq[0..isotherm_len].
Tables ==
    { [isotherm_len |-> Cardinality(S) - 1,
       soc_eq |-> Arr([k \in 1 .. Cardinality(S) |-> Dec(Ascending(S)[k], -2)])] :
        S \in { T \in SUBSET BreakValues :
                    Cardinality(T) >= 2 /\ Cardinality(T) <= MaxSegments + 1 } }

LookupInit ==
    /\ args = BaseArgs
    /\ \E t \in Tables, s \in SocValues :
        lookup = [pc |-> "scan", isotherm_len |-> t.isotherm_len,
                  soc_eq |-> t.soc_eq, soc |-> s, segment |-> -1]
    /\ prof = NoProfile
    /\ team = 1
    /\ todo = {}
    /\ wpc = [w \in {1} |-> "idle"]
    /\ cell = [w \in {1} |-> <<0, 0>>]
    /\ index = [w \in {1} |-> 0]
    /\ scratch = [w \in {1} |-> NoLocals]
    /\ trace = [w \in {1} |-> <<>>]
    /\ res = <<>>
    /\ nwrites = <<>>
    /\ log = <<>>
    /\ ref = <<>>
    /\ returned = FALSE

\* The for loop over the segments, run to its end or its break.
Scan ==
    /\ lookup.pc = "scan"
    /\ lookup' = [lookup EXCEPT
                     !.pc = "done",
                     !.segment = Segment(lookup.soc, lookup.soc_eq,
                                         lookup.isotherm_len)]
    /\ UNCHANGED <<args, mapvars, prof>>

LookupNext == Scan

LookupSpec == LookupInit /\ [][LookupNext]_vars

(***************************************************************************)
(* Properties of run_map                                                   *)
(***************************************************************************)

\* The flattened indices whose output slots have been stored.
Written == {idx \in DOMAIN nwrites : nwrites[idx] > 0}

\* C1: no output index is ever stored twice, a thread running a cell holds
\* an index nobody has stored and no other running thread holds, and once
\* run_map has returned every index of the grid has been stored exactly once.
C1_EachIndexWrittenOnce ==
    /\ \A idx \in DOMAIN nwrites : nwrites[idx] <= 1
    /\ \A w \in Threads : wpc[w] = "loop" => nwrites[index[w]] = 0
    /\ \A w1, w2 \in Threads :
        (w1 # w2 /\ wpc[w1] = "loop" /\ wpc[w2] = "loop") => index[w1] # index[w2]
    /\ returned =>
        /\ DOMAIN nwrites = Cells(args.num_logell * args.num_logxi)
        /\ \A idx \in DOMAIN nwrites : nwrites[idx] = 1

\* A 2 x 2 grid swept by two threads has returned with its four slots stored.
C1_Witness ==
    /\ returned
    /\ team = 2
    /\ args.num_logell = 2 /\ args.num_logxi = 2
    /\ \A idx \in Cells(4) : nwrites[idx] = 1

\* C2: whatever the team size and the interleaving, the values stored at an
\* index are those the single-threaded run of the same call stores there, and
\* the arrays run_map returns are the single-threaded arrays.
C2_SameAsSingleThread ==
    /\ \A idx \in Written : res[idx] = ref[idx]
    /\ returned => \A idx \in DOMAIN ref : res[idx] = ref[idx]

\* Two threads are both inside a cell's loop, each past its first iteration,
\* while a third cell's result, equal to the single-threaded one, is stored.
C2_Witness ==
    /\ team = 2
    /\ wpc[1] = "loop" /\ wpc[2] = "loop"
    /\ Len(trace[Buf(1)]) > 0 /\ Len(trace[Buf(2)]) > 0
    /\ cell[1] # cell[2]
    /\ \E idx \in Written : res[idx] = ref[idx] /\ IsNum(res[idx].socmax)

C4_ReportedFieldAboveCutoff ==
    \A idx \in Written :
        Gt(Voltage(args, log[idx].l, ReportedField(log[idx].l)), args.vcut)

\* C4 amended: the field whose mean is reported is the first one whose
\* voltage is not greater than vcut: its voltage is the pot_i that ended the
\* loop, and the voltage of every field before it is greater than vcut.
C4_ReportedFieldIsFirstNotAboveCutoff ==
    \A idx \in Written :
        LET l == log[idx].l
            t == log[idx].trace
        IN  /\ Voltage(args, l, ReportedField(l)) = l.pot_i
            /\ ~Gt(Voltage(args, l, ReportedField(l)), args.vcut)
            /\ \A k \in 1 .. (Len(t) - 1) : Gt(Voltage(args, l, t[k].field), args.vcut)

\* A stored cell whose loop ran at least two iterations and whose reported
\* field has a voltage strictly below vcut.
C4_Witness ==
    \E idx \in Written :
        /\ Len(log[idx].trace) >= 2
        /\ Lt(Voltage(args, log[idx].l, ReportedField(log[idx].l)), args.vcut)

\* C8 as stated: a cell whose loop ended on a numerical failure (a NaN
\* voltage) has a failure marker in its socmax slot, not a number in [0, 1].
C8_FailedCellHoldsMarker ==
    \A idx \in Written :
        IsNaN(log[idx].l.pot_i) =>
            ~(Ge(res[idx].socmax, Zero) /\ Le(res[idx].socmax, One))

\* C9 as stated: for a spherical particle (geometry_param = 2), every value
\* of every field an iteration starts from is strictly inside (0, 1).
C9_FieldStrictlyInsideUnitInterval ==
    args.geometry_param = Two =>
        \A w \in Threads : \A k \in 1 .. Len(trace[Buf(w)]) :
            \A i \in Cells(args.grid_size) :
                /\ Gt(trace[Buf(w)][k].field[i], Zero)
                /\ Lt(trace[Buf(w)][k].field[i], One)

(***************************************************************************)
(* Properties of run_profile                                               *)
(***************************************************************************)

\* C6 as stated: every store into res_soc and res_pot, the cadence samples
\* and the final one at res_index + 1, is at an index in 0..each-1.
C6_StoresInsideArrays ==
    prof.pc # "none" =>
        \A k \in 1 .. Len(prof.stores) : prof.stores[k] \in Cells(args.each)

\* C7 as stated: run_profile derives the c-rate, particle size, surface
\* area, current density, time step and space step of the run_map cell of
\* the same point, and the final soc it stores is that cell's socmax.
C7_ProfileIsTheMapCell ==
    prof.pc # "none" =>
        LET m == MapLocals(args, 0, 0)
        IN  /\ prof.l.c_rate = m.c_rate
            /\ prof.l.particle_size = m.particle_size
            /\ prof.l.surface_area = m.surface_area
            /\ prof.l.ccd = m.ccd
            /\ prof.l.time_step = m.time_step
            /\ prof.l.space_step = m.space_step
            /\ prof.pc = "done" => prof.soc = SequentialRun(args)[0].socmax

\* C10: the snapshot is stored at most once; it is stored if and only if
\* some iteration's mean soc was in the band; once stored, res_cons is the
\* field the first such iteration started from and res_r_norm the normalised
\* positions, whatever later iterations in the band do; and with no
\* iteration in the band both arrays are as the caller handed them over.
C10_SnapshotTakenOnceAtFirstHit ==
    prof.pc # "none" =>
        /\ prof.snaps <= 1
        /\ prof.snaps = 0 <=> prof.hits = <<>>
        /\ prof.snaps = 1 =>
            /\ prof.res_cons = prof.hits[1]
            /\ prof.res_r_norm = RadialPositions(args, prof.l)
        /\ prof.snaps = 0 =>
            \A i \in Cells(args.grid_size) :
                prof.res_cons[i] = UnsetValue /\ prof.res_r_norm[i] = UnsetValue

\* run_profile has returned after two iterations with different fields had
\* their mean soc in the band, and the snapshot is the first one's field.
C10_Witness ==
    /\ prof.pc = "done"
    /\ prof.snaps = 1
    /\ Len(prof.hits) >= 2
    /\ prof.hits[1] # prof.hits[2]
    /\ prof.res_cons = prof.hits[1]

(***************************************************************************)
(* Properties of the spline segment lookup                                 *)
(***************************************************************************)

\* The segments i with soc_eq[i] <= soc < soc_eq[i + 1].
Matching ==
    {i \in Cells(lookup.isotherm_len) :
        Ge(lookup.soc, lookup.soc_eq[i]) /\ Lt(lookup.soc, lookup.soc_eq[i + 1])}

====
